---- MODULE Spec2Model ----
(***************************************************************************)
(* Model of RunBitset::RuntimeBitset (lib/RuntimeBitset/RuntimeBitset.hpp):*)
(* a bit vector whose length is chosen at run time, stored little endian   *)
(* in an array of machine words (m_bits) next to an array of masks         *)
(* (m_mask) that mark the significant bits of every block.                 *)
(*                                                                         *)
(* A word is a natural number below 2^BLOCK_SIZE.  The source has          *)
(* BLOCK_SIZE = sizeof(std::size_t) * 8; the model keeps every formula of  *)
(* the source in terms of BLOCK_SIZE and explores a narrow word, so that   *)
(* all vectors of one, two and three blocks can be enumerated.             *)
(*                                                                         *)
(* Block i of the source (0-based) is m_bits[i + 1] here (1-based          *)
(* sequences).  A null pointer is the empty sequence.                      *)
(***************************************************************************)
EXTENDS Integers, Sequences, FiniteSets, TLC

VARIABLES a, b, res, op, pa, pb, orig, ptr, ref

vars == <<a, b, res, op, pa, pb, orig, ptr, ref>>

(***************************************************************************)
(* Bounds of the exploration.                                              *)
(***************************************************************************)
\* width of a word of the model (RuntimeBitset.hpp:109 has sizeof(size_t)*8)
BLOCK_SIZE == 3
\* largest m_size of an enumerated vector: three blocks, the last partial
MaxSize == 7
\* largest shift amount
MaxShift == 9
\* largest m_size of the operands of the binary operators
LogicMaxSize == 4
\* largest position handed to an indexed operation
MaxPos == 9
\* longest string handed to the constructor from a string
StrMaxLen == 4
\* longest string read from a stream into a vector
ReadMaxLen == 3

(***************************************************************************)
(* Native word arithmetic on std::size_t.                                  *)
(***************************************************************************)
WordMod == 2 ^ BLOCK_SIZE

ALL_BITS_ONE == WordMod - 1

Words == 0 .. ALL_BITS_ONE

RECURSIVE BitAnd(_, _)
BitAnd(x, y) ==
  IF x = 0 \/ y = 0 THEN 0
  ELSE (x % 2) * (y % 2) + 2 * BitAnd(x \div 2, y \div 2)

RECURSIVE BitOr(_, _)
BitOr(x, y) ==
  IF x = 0 THEN y
  ELSE IF y = 0 THEN x
  ELSE (IF x % 2 = 1 \/ y % 2 = 1 THEN 1 ELSE 0) + 2 * BitOr(x \div 2, y \div 2)

RECURSIVE BitXor(_, _)
BitXor(x, y) ==
  IF x = 0 THEN y
  ELSE IF y = 0 THEN x
  ELSE ((x + y) % 2) + 2 * BitXor(x \div 2, y \div 2)

BitNot(x) == ALL_BITS_ONE - x

\* A native shift whose amount is >= the width of the word is undefined
\* behaviour.  The builds of the library produce one of two results: the
\* hardware takes the amount modulo the width (the word comes back
\* unshifted, "wrap"), or every bit is shifted out ("zero").
UBOutcomes == {"zero", "wrap"}

OverShift(x, ub) == IF ub = "wrap" THEN x ELSE 0

ShiftL(x, s, ub) ==
  IF s >= BLOCK_SIZE THEN OverShift(x, ub) ELSE (x * (2 ^ s)) % WordMod

ShiftR(x, s, ub) ==
  IF s >= BLOCK_SIZE THEN OverShift(x, ub) ELSE x \div (2 ^ s)

(***************************************************************************)
(* Storage and lifecycle.                                                  *)
(***************************************************************************)
\* an object before its constructor body ran: m_bits = m_mask = nullptr
Fresh == [m_bits |-> <<>>, m_mask |-> <<>>, m_size |-> 0, m_blocks |-> 0]

destroy(o) == [m_bits |-> <<>>, m_mask |-> <<>>, m_size |-> 0, m_blocks |-> 0]

RECURSIVE getNumberBlocksLoop(_, _, _)
getNumberBlocksLoop(t_size, i, numberOfBlocks) ==
  IF i < t_size
    THEN getNumberBlocksLoop(t_size, i + BLOCK_SIZE, numberOfBlocks + 1)
    ELSE numberOfBlocks

getNumberBlocks(t_size) == getNumberBlocksLoop(t_size, 0, 0)

getLastMask(t_number_bits) ==
  ShiftR(ALL_BITS_ONE, BLOCK_SIZE - t_number_bits, "zero")

buildMask(m_size, m_blocks) ==
  [i \in 1 .. m_blocks |->
     IF i = m_blocks
       THEN getLastMask(m_size - ((m_blocks - 1) * BLOCK_SIZE))
       ELSE ALL_BITS_ONE]

\* the contents of an array that new[] returned and nobody wrote yet
Uninit(n) == [1 .. n -> Words]

\* some contents of a new array, for the places where every word of it is
\* overwritten before anything reads it
AnyRaw(n) == [i \in 1 .. n |-> 0]

\* build(t_size) for t_size > 0; raw is what the new m_bits array holds
build(o, t_size, raw) ==
  [m_bits   |-> raw,
   m_mask   |-> buildMask(t_size, getNumberBlocks(t_size)),
   m_size   |-> t_size,
   m_blocks |-> getNumberBlocks(t_size)]

clean(o) == [o EXCEPT !.m_bits = [i \in 1 .. o.m_blocks |-> 0]]

\* every vector of m_size n, whatever its non-significant bits hold
VectorsOfSize(n) == {build(Fresh, n, raw) : raw \in Uninit(getNumberBlocks(n))}

AllVectors == UNION {VectorsOfSize(n) : n \in 1 .. MaxSize}

(***************************************************************************)
(* Addressing and the observers.                                           *)
(***************************************************************************)
getMaskPosition(t_position) == ShiftL(1, t_position, "zero")

\* the loop of getPosition: <<blockPosition, position inside the block>>
RECURSIVE getPositionLoop(_, _)
getPositionLoop(t_position, blockPosition) ==
  IF t_position >= BLOCK_SIZE
    THEN getPositionLoop(t_position - BLOCK_SIZE, blockPosition + 1)
    ELSE <<blockPosition, t_position>>

\* a faulty range check: the capacity of the blocks instead of m_size
getPositionThrowsCapacity(o, t_position) == t_position >= o.m_blocks * BLOCK_SIZE

getPositionThrows(o, t_position) == t_position >= o.m_size

\* for t_position < m_size: .first the block, .second the mask of the bit
getPosition(o, t_position) ==
  [first  |-> getPositionLoop(t_position, 0)[1],
   second |-> getMaskPosition(getPositionLoop(t_position, 0)[2])]

getValueInPosition(o, t_position) ==
  LET position == getPosition(o, t_position)
      auxBlock == BitAnd(o.m_bits[position.first + 1], position.second)
  IN  auxBlock # 0

test(o, t_position) == getValueInPosition(o, t_position)

none(o) == \A i \in 1 .. o.m_blocks : BitAnd(o.m_bits[i], o.m_mask[i]) = 0

any(o) == \E i \in 1 .. o.m_blocks : BitAnd(o.m_bits[i], o.m_mask[i]) # 0

\* a faulty all: the block is compared without its mask applied
allUnmasked(o) == \A i \in 1 .. o.m_blocks : o.m_bits[i] = o.m_mask[i]

all(o) == \A i \in 1 .. o.m_blocks : BitAnd(o.m_bits[i], o.m_mask[i]) = o.m_mask[i]

\* the inner loop of count: the set bits among the BLOCK_SIZE low bits
RECURSIVE countBlock(_, _)
countBlock(block, j) ==
  IF j >= BLOCK_SIZE THEN 0
  ELSE (IF block % 2 # 0 THEN 1 ELSE 0) + countBlock(block \div 2, j + 1)

\* a faulty count loop: the block is counted without its mask applied
RECURSIVE countLoopUnmasked(_, _)
countLoopUnmasked(o, i) ==
  IF i >= o.m_blocks THEN 0
  ELSE countBlock(o.m_bits[i + 1], 0) + countLoopUnmasked(o, i + 1)

RECURSIVE countLoop(_, _)
countLoop(o, i) ==
  IF i >= o.m_blocks THEN 0
  ELSE countBlock(BitAnd(o.m_bits[i + 1], o.m_mask[i + 1]), 0) + countLoop(o, i + 1)

count(o) == countLoop(o, 0)

\* the inner loop of to_string: buffer holds the characters of one block,
\* the least significant first
RECURSIVE toStringBlock(_, _, _)
toStringBlock(block, mask, j) ==
  IF j >= BLOCK_SIZE THEN <<>>
  ELSE (IF mask % 2 # 0
          THEN (IF block % 2 # 0 THEN <<"1">> ELSE <<"0">>)
          ELSE <<>>)
       \o toStringBlock(block \div 2, mask \div 2, j + 1)

\* a faulty reverse: the buffer is left least significant bit first
ReverseNot(s) == s

\* std::reverse
Reverse(s) == [i \in 1 .. Len(s) |-> s[Len(s) + 1 - i]]

RECURSIVE toStringLoop(_, _)
toStringLoop(o, i) ==
  IF i < 0 THEN <<>>
  ELSE Reverse(toStringBlock(BitAnd(o.m_bits[i + 1], o.m_mask[i + 1]),
                             o.m_mask[i + 1], 0))
       \o toStringLoop(o, i - 1)

to_string(o) == toStringLoop(o, o.m_blocks - 1)

\* static_cast of a std::size_t to an unsigned type of t_width bits
static_cast(bits, t_width) == bits % (2 ^ t_width)

\* the widths a build can give unsigned long long next to a std::size_t of
\* BLOCK_SIZE bits: the same (LP64, LLP64) or twice as many (ILP32)
UnsignedLongLongWidths == {BLOCK_SIZE, BLOCK_SIZE + BLOCK_SIZE}

\* the widths a build can give unsigned long: the same as std::size_t
\* (LP64, ILP32) or half as many bits (LLP64)
UnsignedLongWidths == {BLOCK_SIZE \div 2, BLOCK_SIZE}

\* a faulty to_ullong: the mask of block 0 is not applied
to_ullongUnmasked(o, t_width) == static_cast(o.m_bits[1], t_width)

\* to_ullong() on a build whose unsigned long long has t_width bits
to_ullong(o, t_width) == static_cast(BitAnd(o.m_bits[1], o.m_mask[1]), t_width)

\* to_ulong() on a build whose unsigned long has t_width bits
to_ulong(o, t_width) == static_cast(BitAnd(o.m_bits[1], o.m_mask[1]), t_width)

(***************************************************************************)
(* Copy and move.                                                          *)
(***************************************************************************)
\* copy(t_copy, t_toCopy) for two distinct objects: every block is copied
copy(t_copy, t_toCopy) ==
  [build(destroy(t_copy), t_toCopy.m_size, AnyRaw(getNumberBlocks(t_toCopy.m_size)))
     EXCEPT !.m_bits = [i \in 1 .. getNumberBlocks(t_toCopy.m_size) |->
                          t_toCopy.m_bits[i]]]

\* move(t_move, t_toMove) for two distinct objects; raw is what the array
\* of the rebuilt source holds
move(t_move, t_toMove, raw) ==
  [dst |-> [m_bits   |-> t_toMove.m_bits,
            m_mask   |-> t_toMove.m_mask,
            m_size   |-> t_toMove.m_size,
            m_blocks |-> t_toMove.m_blocks],
   src |-> build(Fresh, 1, raw)]

(***************************************************************************)
(* Where the arrays live.  m_bits and m_mask are allocated together and    *)
(* freed together, so one address stands for the pair.  Which address new  *)
(* returns does not matter beyond its being none of the live ones.         *)
(***************************************************************************)
nullptr == "nullptr"

Addresses == {"p1", "p2", "p3"}

\* buildBlocks: new returns an address that no live allocation has
newStorage(live) == CHOOSE p \in Addresses : p \notin live

\* copy(t_copy, t_toCopy) for two distinct objects: the arrays of t_copy are
\* deleted, then build allocates new ones; live are the other allocations
copyStorage(t_copy, t_toCopy, live) == newStorage((live \cup {t_toCopy}) \ {t_copy})

\* a faulty move: the pointers are copied and the source keeps them
moveStorageShared(t_move, t_toMove, live) == [dst |-> t_toMove, src |-> t_toMove]

\* move(t_move, t_toMove) for two distinct objects: the arrays of t_move are
\* deleted, it takes the pointers of t_toMove, and t_toMove, its pointers
\* null, allocates in build(1)
moveStorage(t_move, t_toMove, live) ==
  [dst |-> t_toMove, src |-> newStorage((live \cup {t_toMove}) \ {t_move})]

(***************************************************************************)
(* Shifting.                                                               *)
(***************************************************************************)
\* the loop "while (t_pos >= BLOCK_SIZE)": <<blockWise, t_pos>>
RECURSIVE splitShift(_, _)
splitShift(t_pos, blockWise) ==
  IF t_pos >= BLOCK_SIZE
    THEN splitShift(t_pos - BLOCK_SIZE, blockWise + 1)
    ELSE <<blockWise, t_pos>>

\* does a shift by t_pos evaluate a native shift by BLOCK_SIZE ?
OverShifts(t_pos) == splitShift(t_pos, 0)[2] = 0

\* a faulty shiftBlocksLeft loop: the source block is not cleared
RECURSIVE shiftBlocksLeftLoopNoClear(_, _, _, _)
shiftBlocksLeftLoopNoClear(bits, mask, t_pos, i) ==
  IF i < 0 THEN bits
  ELSE LET newPos == i + t_pos
           moved  == IF newPos < Len(bits)
                       THEN [bits EXCEPT ![newPos + 1] = BitAnd(bits[i + 1], mask[i + 1])]
                       ELSE bits
       IN  shiftBlocksLeftLoopNoClear(moved, mask, t_pos, i - 1)

RECURSIVE shiftBlocksLeftLoop(_, _, _, _)
shiftBlocksLeftLoop(bits, mask, t_pos, i) ==
  IF i < 0 THEN bits
  ELSE LET newPos == i + t_pos
           moved  == IF newPos < Len(bits)
                       THEN [bits EXCEPT ![newPos + 1] = BitAnd(bits[i + 1], mask[i + 1])]
                       ELSE bits
       IN  shiftBlocksLeftLoop([moved EXCEPT ![i + 1] = 0], mask, t_pos, i - 1)

shiftBlocksLeft(o, t_pos) ==
  [o EXCEPT !.m_bits = shiftBlocksLeftLoop(o.m_bits, o.m_mask, t_pos, o.m_blocks - 1)]

RECURSIVE shiftBlocksRightLoop(_, _, _, _)
shiftBlocksRightLoop(bits, mask, t_pos, i) ==
  IF i >= Len(bits) THEN bits
  ELSE LET newPos == i - t_pos
           moved  == IF newPos >= 0
                       THEN [bits EXCEPT ![newPos + 1] = BitAnd(bits[i + 1], mask[i + 1])]
                       ELSE bits
       IN  shiftBlocksRightLoop([moved EXCEPT ![i + 1] = 0], mask, t_pos, i + 1)

shiftBlocksRight(o, t_pos) ==
  [o EXCEPT !.m_bits = shiftBlocksRightLoop(o.m_bits, o.m_mask, t_pos, 0)]

RECURSIVE bitwiseLeftLoop(_, _, _, _, _)
bitwiseLeftLoop(bits, mask, t_pos, i, ub) ==
  IF i < 0 THEN bits
  ELSE LET masked  == BitAnd(bits[i + 1], mask[i + 1])
           remain  == ShiftR(masked, BLOCK_SIZE - t_pos, ub)
           shifted == [bits EXCEPT ![i + 1] = ShiftL(masked, t_pos, ub)]
           carried == IF i + 1 < Len(bits)
                        THEN [shifted EXCEPT ![i + 2] = BitOr(shifted[i + 2], remain)]
                        ELSE shifted
       IN  bitwiseLeftLoop(carried, mask, t_pos, i - 1, ub)

bitwiseLeft(o, t_pos, ub) ==
  LET split   == splitShift(t_pos, 0)
      blocked == IF split[1] > 0 THEN shiftBlocksLeft(o, split[1]) ELSE o
  IN  [blocked EXCEPT !.m_bits =
         bitwiseLeftLoop(blocked.m_bits, blocked.m_mask, split[2], o.m_blocks - 1, ub)]

\* a faulty bitwiseRight loop: the blocks are not masked
RECURSIVE bitwiseRightLoopUnmasked(_, _, _, _, _)
bitwiseRightLoopUnmasked(bits, mask, t_pos, i, ub) ==
  IF i >= Len(bits) THEN bits
  ELSE LET remain  == ShiftL(bits[i + 1], BLOCK_SIZE - t_pos, ub)
           shifted == [bits EXCEPT ![i + 1] = ShiftR(bits[i + 1], t_pos, ub)]
           carried == IF i - 1 >= 0
                        THEN [shifted EXCEPT ![i] = BitOr(shifted[i], remain)]
                        ELSE shifted
       IN  bitwiseRightLoopUnmasked(carried, mask, t_pos, i + 1, ub)

RECURSIVE bitwiseRightLoop(_, _, _, _, _)
bitwiseRightLoop(bits, mask, t_pos, i, ub) ==
  IF i >= Len(bits) THEN bits
  ELSE LET masked  == BitAnd(bits[i + 1], mask[i + 1])
           remain  == ShiftL(masked, BLOCK_SIZE - t_pos, ub)
           shifted == [bits EXCEPT ![i + 1] = ShiftR(masked, t_pos, ub)]
           carried == IF i - 1 >= 0
                        THEN [shifted EXCEPT ![i] = BitOr(shifted[i], remain)]
                        ELSE shifted
       IN  bitwiseRightLoop(carried, mask, t_pos, i + 1, ub)

bitwiseRight(o, t_pos, ub) ==
  LET split   == splitShift(t_pos, 0)
      blocked == IF split[1] > 0 THEN shiftBlocksRight(o, split[1]) ELSE o
  IN  [blocked EXCEPT !.m_bits =
         bitwiseRightLoop(blocked.m_bits, blocked.m_mask, split[2], 0, ub)]

(***************************************************************************)
(* Constructors.                                                           *)
(***************************************************************************)
\* build(t_size) throws RuntimeBitsetInvalidSize
buildThrows(t_size) == t_size = 0

\* copy(o, o): t_copy and t_toCopy are the same object, so t_toCopy.size()
\* is read after t_copy.destroy() has set it to zero
copySelf(o) ==
  IF buildThrows(destroy(o).m_size)
    THEN [obj |-> destroy(o), err |-> "InvalidSize"]
    ELSE [obj |-> copy(destroy(o), destroy(o)), err |-> "none"]

\* RuntimeBitset(t_size), t_size > 0: clean() overwrites every word
RuntimeBitsetSize(t_size) ==
  clean(build(Fresh, t_size, AnyRaw(getNumberBlocks(t_size))))

\* RuntimeBitset(t_size, t_num), t_size > 0: only m_bits[0] is written
RuntimeBitsetSeed(t_size, t_num, raw) ==
  [build(Fresh, t_size, raw) EXCEPT !.m_bits[1] = t_num]

\* RuntimeBitset()
RuntimeBitsetDefault == clean(build(Fresh, BLOCK_SIZE, AnyRaw(1)))

(***************************************************************************)
(* Single bit modifiers.                                                   *)
(***************************************************************************)
\* set(t_position) for t_position < m_size
set(o, t_position) ==
  LET position == getPosition(o, t_position)
  IN  [o EXCEPT !.m_bits[position.first + 1] =
         BitOr(o.m_bits[position.first + 1], position.second)]

\* a faulty reset: the position mask is applied without being reversed
resetKeepsOnly(o, t_position) ==
  LET position == getPosition(o, t_position)
  IN  [o EXCEPT !.m_bits[position.first + 1] =
         BitAnd(o.m_bits[position.first + 1], position.second)]

\* reset(t_position) for t_position < m_size
reset(o, t_position) ==
  LET position == getPosition(o, t_position)
  IN  [o EXCEPT !.m_bits[position.first + 1] =
         BitAnd(o.m_bits[position.first + 1], BitNot(position.second))]

\* a faulty flip: the reversed value is ORed in without the bit being
\* cleared first
flipNoClear(o, t_position) ==
  LET position == getPosition(o, t_position)
      block == o.m_bits[position.first + 1]
      positionValueReversed == BitAnd(BitNot(block), position.second)
  IN  [o EXCEPT !.m_bits[position.first + 1] = BitOr(block, positionValueReversed)]

\* flip(t_position) for t_position < m_size
flip(o, t_position) ==
  LET position == getPosition(o, t_position)
      block == o.m_bits[position.first + 1]
      positionValueReversed  == BitAnd(BitNot(block), position.second)
      allExceptPositionValue == BitAnd(block, BitNot(position.second))
  IN  [o EXCEPT !.m_bits[position.first + 1] =
         BitOr(allExceptPositionValue, positionValueReversed)]

\* the check of the non-const operator[]
operatorIndexThrows(o, t_pos) == t_pos >= o.m_size

(***************************************************************************)
(* Reference: m_position into the vector m_bitset.                         *)
(***************************************************************************)
\* a faulty Reference::operator=(bool): the bit is set whatever t_value is
ReferenceAssignSets(o, m_position, t_value) == set(o, m_position)

\* Reference::operator=(const bool t_value)
ReferenceAssign(o, m_position, t_value) ==
  IF t_value = TRUE THEN set(o, m_position) ELSE reset(o, m_position)

\* Reference::operator bool
ReferenceBool(o, m_position) == getValueInPosition(o, m_position)

\* Reference::operator~
ReferenceNot(o, m_position) == ~getValueInPosition(o, m_position)

\* Reference::flip
ReferenceFlip(o, m_position) == flip(o, m_position)

(***************************************************************************)
(* Whole-vector modifiers.                                                 *)
(***************************************************************************)
\* set()
setAll(o) == [o EXCEPT !.m_bits = [i \in 1 .. o.m_blocks |-> ALL_BITS_ONE]]

\* reset()
resetAll(o) == clean(o)

\* flip()
flipAll(o) == [o EXCEPT !.m_bits = [i \in 1 .. o.m_blocks |-> BitNot(o.m_bits[i])]]

\* a faulty operator~: the loop stops one block early
operatorNotSkipsLast(o) ==
  [o EXCEPT !.m_bits = [i \in 1 .. o.m_blocks |->
                          IF i < o.m_blocks THEN BitNot(o.m_bits[i]) ELSE o.m_bits[i]]]

\* the loop of operator~, on *this
operatorNot(o) == [o EXCEPT !.m_bits = [i \in 1 .. o.m_blocks |-> BitNot(o.m_bits[i])]]

(***************************************************************************)
(* Construction from a string.                                             *)
(***************************************************************************)
\* the loop of buildFromString from index i (0-based) on: the object and
\* the exception that ended the loop, if any
\* a faulty loop: a character that is neither '0' nor '1' is skipped
RECURSIVE buildFromStringLoopLenient(_, _, _)
buildFromStringLoopLenient(o, t_string, i) ==
  IF i >= Len(t_string) THEN [obj |-> o, err |-> "none"]
  ELSE IF t_string[i + 1] = "1"
    THEN buildFromStringLoopLenient(set(o, (Len(t_string) - 1) - i), t_string, i + 1)
  ELSE buildFromStringLoopLenient(o, t_string, i + 1)

RECURSIVE buildFromStringLoop(_, _, _)
buildFromStringLoop(o, t_string, i) ==
  IF i >= Len(t_string) THEN [obj |-> o, err |-> "none"]
  ELSE IF t_string[i + 1] = "1"
    THEN buildFromStringLoop(set(o, (Len(t_string) - 1) - i), t_string, i + 1)
  ELSE IF t_string[i + 1] = "0"
    THEN buildFromStringLoop(o, t_string, i + 1)
  ELSE [obj |-> o, err |-> "UnknownChar"]

\* buildFromString(t_string); raw is what the new m_bits array holds
buildFromString(o, t_string, raw) ==
  IF buildThrows(Len(t_string))
    THEN [obj |-> destroy(o), err |-> "InvalidSize"]
    ELSE buildFromStringLoop(build(destroy(o), Len(t_string), raw), t_string, 0)

(***************************************************************************)
(* Binary logic operators.                                                 *)
(***************************************************************************)
\* a faulty check: the numbers of blocks instead of the sizes
sizeDismatchBlocks(t_1, t_2) == t_1.m_blocks # t_2.m_blocks

\* the check of operator&, operator| and operator^
sizeDismatch(t_1, t_2) == t_1.m_size # t_2.m_size

\* operator&(t_1, t_2) for operands of one size
operatorAnd(t_1, t_2) ==
  [RuntimeBitsetSize(t_1.m_size) EXCEPT !.m_bits =
     [i \in 1 .. getNumberBlocks(t_1.m_size) |-> BitAnd(t_1.m_bits[i], t_2.m_bits[i])]]

\* operator|(t_1, t_2) for operands of one size
operatorOr(t_1, t_2) ==
  [RuntimeBitsetSize(t_1.m_size) EXCEPT !.m_bits =
     [i \in 1 .. getNumberBlocks(t_1.m_size) |-> BitOr(t_1.m_bits[i], t_2.m_bits[i])]]

\* a faulty operator^: the loop body of operator|
operatorXorAsOr(t_1, t_2) ==
  [RuntimeBitsetSize(t_1.m_size) EXCEPT !.m_bits =
     [i \in 1 .. getNumberBlocks(t_1.m_size) |-> BitOr(t_1.m_bits[i], t_2.m_bits[i])]]

\* operator^(t_1, t_2) for operands of one size
operatorXor(t_1, t_2) ==
  [RuntimeBitsetSize(t_1.m_size) EXCEPT !.m_bits =
     [i \in 1 .. getNumberBlocks(t_1.m_size) |-> BitXor(t_1.m_bits[i], t_2.m_bits[i])]]

(***************************************************************************)
(* The state: two vectors a and b of the program, the value or the         *)
(* exception the last call produced (res), the last call and its           *)
(* arguments (op), and a and b as they were when it was made (pa, pb).     *)
(* When the last two calls were a <<= k; a >>= k with the same k, or the    *)
(* same flip twice, or a flip through a Reference and a read of it, orig   *)
(* is a as it was before the two of them; otherwise orig is Fresh.         *)
(* ptr tells where the arrays of a and of b are allocated, and ref is the  *)
(* position of the Reference into a that the program holds (<<pos>>), or   *)
(* <<>> when it holds none: the programs explored keep a Reference only    *)
(* until their next call on the vector itself.                             *)
(***************************************************************************)
\* err: the exception thrown ("none": the call returned); vec, val, str, ref:
\* the vector, the bool (0 or 1), the string or the position of the
\* Reference that was returned
NoRes == [err |-> "none", vec |-> Fresh, val |-> 0, str |-> <<>>, ref |-> 0]

VecRes(o) == [NoRes EXCEPT !.vec = o]

ErrRes(e) == [NoRes EXCEPT !.err = e]

\* k: the first argument (a shift amount, a position, a size); x: the second
\* (a seed); ub: the outcome of the undefined native shift, if one is met
NoOp == [name |-> "init", k |-> 0, x |-> 0, ub |-> "none"]

\* the outcomes of the undefined native shift a shift by t_pos can meet
UBChoices(t_pos) == IF OverShifts(t_pos) THEN UBOutcomes ELSE {"none"}

\* operator<<(t_pos): aux is copy constructed from *this, shifted, returned
ShiftLeft ==
  \E k \in 0 .. MaxShift : \E ub \in UBChoices(k) :
    /\ res' = VecRes(bitwiseLeft(copy(Fresh, a), k, ub))
    /\ op' = [NoOp EXCEPT !.name = "shl", !.k = k, !.ub = ub]
    /\ pa' = a /\ pb' = b /\ orig' = Fresh
    /\ UNCHANGED ptr /\ ref' = <<>>
    /\ UNCHANGED <<a, b>>

\* operator<<=(t_pos)
ShiftLeftAssign ==
  \E k \in 0 .. MaxShift : \E ub \in UBChoices(k) :
    /\ a' = bitwiseLeft(a, k, ub)
    /\ res' = NoRes
    /\ op' = [NoOp EXCEPT !.name = "shl_assign", !.k = k, !.ub = ub]
    /\ pa' = a /\ pb' = b /\ orig' = Fresh
    /\ UNCHANGED ptr /\ ref' = <<>>
    /\ UNCHANGED b

\* operator>>(t_pos)
ShiftRight ==
  \E k \in 0 .. MaxShift : \E ub \in UBChoices(k) :
    /\ res' = VecRes(bitwiseRight(copy(Fresh, a), k, ub))
    /\ op' = [NoOp EXCEPT !.name = "shr", !.k = k, !.ub = ub]
    /\ pa' = a /\ pb' = b /\ orig' = Fresh
    /\ UNCHANGED ptr /\ ref' = <<>>
    /\ UNCHANGED <<a, b>>

\* operator>>=(t_pos)
ShiftRightAssign ==
  \E k \in 0 .. MaxShift : \E ub \in UBChoices(k) :
    /\ a' = bitwiseRight(a, k, ub)
    /\ res' = NoRes
    /\ op' = [NoOp EXCEPT !.name = "shr_assign", !.k = k, !.ub = ub]
    /\ pa' = a /\ pb' = b
    /\ UNCHANGED ptr /\ ref' = <<>>
    /\ orig' = IF op.name = "shl_assign" /\ op.k = k THEN pa ELSE Fresh
    /\ UNCHANGED b

\* operator&(a, b)
And ==
  /\ res' = IF sizeDismatch(a, b) THEN ErrRes("SizeDismatch") ELSE VecRes(operatorAnd(a, b))
  /\ op' = [NoOp EXCEPT !.name = "and"]
  /\ pa' = a /\ pb' = b /\ orig' = Fresh
  /\ UNCHANGED ptr /\ ref' = <<>>
  /\ UNCHANGED <<a, b>>

\* operator|(a, b)
Or ==
  /\ res' = IF sizeDismatch(a, b) THEN ErrRes("SizeDismatch") ELSE VecRes(operatorOr(a, b))
  /\ op' = [NoOp EXCEPT !.name = "or"]
  /\ pa' = a /\ pb' = b /\ orig' = Fresh
  /\ UNCHANGED ptr /\ ref' = <<>>
  /\ UNCHANGED <<a, b>>

\* operator^(a, b)
Xor ==
  /\ res' = IF sizeDismatch(a, b) THEN ErrRes("SizeDismatch") ELSE VecRes(operatorXor(a, b))
  /\ op' = [NoOp EXCEPT !.name = "xor"]
  /\ pa' = a /\ pb' = b /\ orig' = Fresh
  /\ UNCHANGED ptr /\ ref' = <<>>
  /\ UNCHANGED <<a, b>>

\* a &= b: *this = *this & t_other.  The temporary is move assigned to a
\* and destroyed; what its rebuilt array holds is never read.
AndAssign ==
  /\ IF sizeDismatch(a, b)
       THEN res' = ErrRes("SizeDismatch") /\ a' = a
       ELSE res' = NoRes /\ a' = move(a, operatorAnd(a, b), AnyRaw(1)).dst
  /\ op' = [NoOp EXCEPT !.name = "and_assign"]
  /\ pa' = a /\ pb' = b /\ orig' = Fresh
  /\ ptr' = IF sizeDismatch(a, b) THEN ptr
            ELSE [ptr EXCEPT !.a = moveStorage(ptr.a, newStorage({ptr.a, ptr.b}), {ptr.b}).dst]
  /\ ref' = <<>>
  /\ UNCHANGED b

\* a |= b
OrAssign ==
  /\ IF sizeDismatch(a, b)
       THEN res' = ErrRes("SizeDismatch") /\ a' = a
       ELSE res' = NoRes /\ a' = move(a, operatorOr(a, b), AnyRaw(1)).dst
  /\ op' = [NoOp EXCEPT !.name = "or_assign"]
  /\ pa' = a /\ pb' = b /\ orig' = Fresh
  /\ ptr' = IF sizeDismatch(a, b) THEN ptr
            ELSE [ptr EXCEPT !.a = moveStorage(ptr.a, newStorage({ptr.a, ptr.b}), {ptr.b}).dst]
  /\ ref' = <<>>
  /\ UNCHANGED b

\* a ^= b
XorAssign ==
  /\ IF sizeDismatch(a, b)
       THEN res' = ErrRes("SizeDismatch") /\ a' = a
       ELSE res' = NoRes /\ a' = move(a, operatorXor(a, b), AnyRaw(1)).dst
  /\ op' = [NoOp EXCEPT !.name = "xor_assign"]
  /\ pa' = a /\ pb' = b /\ orig' = Fresh
  /\ ptr' = IF sizeDismatch(a, b) THEN ptr
            ELSE [ptr EXCEPT !.a = moveStorage(ptr.a, newStorage({ptr.a, ptr.b}), {ptr.b}).dst]
  /\ ref' = <<>>
  /\ UNCHANGED b

\* a.set(pos)
Set ==
  \E pos \in 0 .. MaxPos :
    /\ IF getPositionThrows(a, pos)
         THEN res' = ErrRes("OutOfRange") /\ a' = a
         ELSE res' = NoRes /\ a' = set(a, pos)
    /\ op' = [NoOp EXCEPT !.name = "set", !.k = pos]
    /\ pa' = a /\ pb' = b /\ orig' = Fresh
    /\ UNCHANGED ptr /\ ref' = <<>>
    /\ UNCHANGED b

\* a.reset(pos)
Reset ==
  \E pos \in 0 .. MaxPos :
    /\ IF getPositionThrows(a, pos)
         THEN res' = ErrRes("OutOfRange") /\ a' = a
         ELSE res' = NoRes /\ a' = reset(a, pos)
    /\ op' = [NoOp EXCEPT !.name = "reset", !.k = pos]
    /\ pa' = a /\ pb' = b /\ orig' = Fresh
    /\ UNCHANGED ptr /\ ref' = <<>>
    /\ UNCHANGED b

\* a.flip(pos)
Flip ==
  \E pos \in 0 .. MaxPos :
    /\ IF getPositionThrows(a, pos)
         THEN res' = ErrRes("OutOfRange") /\ a' = a
         ELSE res' = NoRes /\ a' = flip(a, pos)
    /\ op' = [NoOp EXCEPT !.name = "flip", !.k = pos]
    /\ pa' = a /\ pb' = b
    /\ orig' = IF op.name = "flip" /\ op.k = pos /\ res.err = "none" THEN pa ELSE Fresh
    /\ UNCHANGED ptr /\ ref' = <<>>
    /\ UNCHANGED b

\* a.set()
SetAll ==
  /\ a' = setAll(a)
  /\ res' = NoRes
  /\ op' = [NoOp EXCEPT !.name = "set_all"]
  /\ pa' = a /\ pb' = b /\ orig' = Fresh
  /\ UNCHANGED ptr /\ ref' = <<>>
  /\ UNCHANGED b

\* a.reset()
ResetAll ==
  /\ a' = resetAll(a)
  /\ res' = NoRes
  /\ op' = [NoOp EXCEPT !.name = "reset_all"]
  /\ pa' = a /\ pb' = b /\ orig' = Fresh
  /\ UNCHANGED ptr /\ ref' = <<>>
  /\ UNCHANGED b

\* a.flip()
FlipAll ==
  /\ a' = flipAll(a)
  /\ res' = NoRes
  /\ op' = [NoOp EXCEPT !.name = "flip_all"]
  /\ pa' = a /\ pb' = b
  /\ orig' = IF op.name = "flip_all" THEN pa ELSE Fresh
  /\ UNCHANGED ptr /\ ref' = <<>>
  /\ UNCHANGED b

\* ~a: the blocks of a are inverted in place and a copy of a is returned;
\* the copy constructor throws when a has no bits
Not ==
  /\ a' = operatorNot(a)
  /\ res' = IF buildThrows(a.m_size) THEN ErrRes("InvalidSize")
            ELSE VecRes(copy(Fresh, operatorNot(a)))
  /\ op' = [NoOp EXCEPT !.name = "not"]
  /\ pa' = a /\ pb' = b /\ orig' = Fresh
  /\ UNCHANGED ptr /\ ref' = <<>>
  /\ UNCHANGED b

\* a.count()
CountCall ==
  /\ res' = [NoRes EXCEPT !.val = count(a)]
  /\ op' = [NoOp EXCEPT !.name = "count"]
  /\ pa' = a /\ pb' = b /\ orig' = Fresh
  /\ UNCHANGED ptr /\ ref' = <<>>
  /\ UNCHANGED <<a, b>>

\* a.all()
AllCall ==
  /\ res' = [NoRes EXCEPT !.val = IF all(a) THEN 1 ELSE 0]
  /\ op' = [NoOp EXCEPT !.name = "all"]
  /\ pa' = a /\ pb' = b /\ orig' = Fresh
  /\ UNCHANGED ptr /\ ref' = <<>>
  /\ UNCHANGED <<a, b>>

\* a.any()
AnyCall ==
  /\ res' = [NoRes EXCEPT !.val = IF any(a) THEN 1 ELSE 0]
  /\ op' = [NoOp EXCEPT !.name = "any"]
  /\ pa' = a /\ pb' = b /\ orig' = Fresh
  /\ UNCHANGED ptr /\ ref' = <<>>
  /\ UNCHANGED <<a, b>>

\* a.none()
NoneCall ==
  /\ res' = [NoRes EXCEPT !.val = IF none(a) THEN 1 ELSE 0]
  /\ op' = [NoOp EXCEPT !.name = "none"]
  /\ pa' = a /\ pb' = b /\ orig' = Fresh
  /\ UNCHANGED ptr /\ ref' = <<>>
  /\ UNCHANGED <<a, b>>

\* a.to_string()
ToStringCall ==
  /\ res' = [NoRes EXCEPT !.str = to_string(a)]
  /\ op' = [NoOp EXCEPT !.name = "to_string"]
  /\ pa' = a /\ pb' = b /\ orig' = Fresh
  /\ UNCHANGED ptr /\ ref' = <<>>
  /\ UNCHANGED <<a, b>>

\* a.to_ullong(); x is the width of unsigned long long.  On an object
\* without arrays m_bits[0] is read through a null pointer: any value.
ToUllongCall ==
  \E w \in UnsignedLongLongWidths :
    \E v \in (IF a.m_bits = <<>> THEN Words ELSE {to_ullong(a, w)}) :
      /\ res' = [NoRes EXCEPT !.val = v]
      /\ op' = [NoOp EXCEPT !.name = "to_ullong", !.x = w]
      /\ pa' = a /\ pb' = b /\ orig' = Fresh
      /\ UNCHANGED ptr /\ ref' = <<>>
      /\ UNCHANGED <<a, b>>

\* a.to_ulong(); x is the width of unsigned long
ToUlongCall ==
  \E w \in UnsignedLongWidths :
    \E v \in (IF a.m_bits = <<>> THEN Words ELSE {to_ulong(a, w)}) :
      /\ res' = [NoRes EXCEPT !.val = v]
      /\ op' = [NoOp EXCEPT !.name = "to_ulong", !.x = w]
      /\ pa' = a /\ pb' = b /\ orig' = Fresh
      /\ UNCHANGED ptr /\ ref' = <<>>
      /\ UNCHANGED <<a, b>>

\* a has been constructed: it is not the object that a constructor of this
\* behaviour has still to build
Constructed == ~(op.name = "init" /\ a = Fresh)

\* RuntimeBitset a(b)
CopyConstruct ==
  /\ ~Constructed
  /\ a' = copy(a, b)
  /\ res' = NoRes
  /\ op' = [NoOp EXCEPT !.name = "copy_ctor"]
  /\ pa' = a /\ pb' = b /\ orig' = Fresh
  /\ ptr' = [ptr EXCEPT !.a = copyStorage(ptr.a, ptr.b, {})]
  /\ ref' = <<>>
  /\ UNCHANGED b

\* a = b
CopyAssign ==
  /\ Constructed
  /\ a' = copy(a, b)
  /\ res' = NoRes
  /\ op' = [NoOp EXCEPT !.name = "copy_assign"]
  /\ pa' = a /\ pb' = b /\ orig' = Fresh
  /\ ptr' = [ptr EXCEPT !.a = copyStorage(ptr.a, ptr.b, {})]
  /\ ref' = <<>>
  /\ UNCHANGED b

\* RuntimeBitset a(std::move(b))
MoveConstruct ==
  \E raw \in Uninit(getNumberBlocks(1)) :
    /\ ~Constructed
    /\ a' = move(a, b, raw).dst
    /\ b' = move(a, b, raw).src
    /\ res' = NoRes
    /\ op' = [NoOp EXCEPT !.name = "move_ctor"]
    /\ pa' = a /\ pb' = b /\ orig' = Fresh
    /\ ptr' = [a |-> moveStorage(ptr.a, ptr.b, {}).dst, b |-> moveStorage(ptr.a, ptr.b, {}).src]
    /\ ref' = <<>>

\* a = std::move(b)
MoveAssign ==
  \E raw \in Uninit(getNumberBlocks(1)) :
    /\ Constructed
    /\ a' = move(a, b, raw).dst
    /\ b' = move(a, b, raw).src
    /\ res' = NoRes
    /\ op' = [NoOp EXCEPT !.name = "move_assign"]
    /\ pa' = a /\ pb' = b /\ orig' = Fresh
    /\ ptr' = [a |-> moveStorage(ptr.a, ptr.b, {}).dst, b |-> moveStorage(ptr.a, ptr.b, {}).src]
    /\ ref' = <<>>

\* a = a: copy assignment of a vector to itself
CopyAssignSelf ==
  /\ Constructed
  /\ a' = copySelf(a).obj
  /\ res' = ErrRes(copySelf(a).err)
  /\ op' = [NoOp EXCEPT !.name = "copy_assign_self"]
  /\ pa' = a /\ pb' = b /\ orig' = Fresh
  /\ ptr' = [ptr EXCEPT !.a = IF copySelf(a).err = "none" THEN newStorage({ptr.b}) ELSE nullptr]
  /\ ref' = <<>>
  /\ UNCHANGED b

\* a.test(pos)
Test ==
  \E pos \in 0 .. MaxPos :
    /\ res' = IF getPositionThrows(a, pos)
                THEN ErrRes("OutOfRange")
                ELSE [NoRes EXCEPT !.val = IF test(a, pos) THEN 1 ELSE 0]
    /\ op' = [NoOp EXCEPT !.name = "test", !.k = pos]
    /\ pa' = a /\ pb' = b /\ orig' = Fresh
    /\ UNCHANGED ptr /\ ref' = <<>>
    /\ UNCHANGED <<a, b>>

\* a[pos] on a const vector
IndexConst ==
  \E pos \in 0 .. MaxPos :
    /\ res' = IF getPositionThrows(a, pos)
                THEN ErrRes("OutOfRange")
                ELSE [NoRes EXCEPT !.val = IF getValueInPosition(a, pos) THEN 1 ELSE 0]
    /\ op' = [NoOp EXCEPT !.name = "index_const", !.k = pos]
    /\ pa' = a /\ pb' = b /\ orig' = Fresh
    /\ UNCHANGED ptr /\ ref' = <<>>
    /\ UNCHANGED <<a, b>>

\* a[pos] on a non-const vector: a Reference to position pos of a
IndexRef ==
  \E pos \in 0 .. MaxPos :
    /\ res' = IF operatorIndexThrows(a, pos)
                THEN ErrRes("OutOfRange")
                ELSE [NoRes EXCEPT !.ref = pos]
    /\ op' = [NoOp EXCEPT !.name = "index_ref", !.k = pos]
    /\ pa' = a /\ pb' = b /\ orig' = Fresh
    /\ ref' = IF operatorIndexThrows(a, pos) THEN <<>> ELSE <<pos>>
    /\ UNCHANGED ptr
    /\ UNCHANGED <<a, b>>

\* r = value, for the Reference r that the program holds
RefAssign ==
  \E value \in BOOLEAN :
    /\ ref # <<>>
    /\ IF getPositionThrows(a, ref[1])
         THEN res' = ErrRes("OutOfRange") /\ a' = a
         ELSE res' = [NoRes EXCEPT !.ref = ref[1]] /\ a' = ReferenceAssign(a, ref[1], value)
    /\ op' = [NoOp EXCEPT !.name = "ref_assign", !.k = ref[1], !.x = IF value THEN 1 ELSE 0]
    /\ pa' = a /\ pb' = b /\ orig' = Fresh
    /\ UNCHANGED <<b, ptr, ref>>

\* r.flip()
RefFlip ==
  /\ ref # <<>>
  /\ IF getPositionThrows(a, ref[1])
       THEN res' = ErrRes("OutOfRange") /\ a' = a
       ELSE res' = [NoRes EXCEPT !.ref = ref[1]] /\ a' = ReferenceFlip(a, ref[1])
  /\ op' = [NoOp EXCEPT !.name = "ref_flip", !.k = ref[1]]
  /\ pa' = a /\ pb' = b /\ orig' = Fresh
  /\ UNCHANGED <<b, ptr, ref>>

\* bool(r); after r.flip(), orig is a as it was before the flip
RefRead ==
  /\ ref # <<>>
  /\ res' = IF getPositionThrows(a, ref[1])
              THEN ErrRes("OutOfRange")
              ELSE [NoRes EXCEPT !.val = IF ReferenceBool(a, ref[1]) THEN 1 ELSE 0]
  /\ op' = [NoOp EXCEPT !.name = "ref_read", !.k = ref[1]]
  /\ pa' = a /\ pb' = b
  /\ orig' = IF op.name = "ref_flip" /\ res.err = "none" THEN pa ELSE Fresh
  /\ UNCHANGED <<a, b, ptr, ref>>

\* ~r
RefNot ==
  /\ ref # <<>>
  /\ res' = IF getPositionThrows(a, ref[1])
              THEN ErrRes("OutOfRange")
              ELSE [NoRes EXCEPT !.val = IF ReferenceNot(a, ref[1]) THEN 1 ELSE 0]
  /\ op' = [NoOp EXCEPT !.name = "ref_not", !.k = ref[1]]
  /\ pa' = a /\ pb' = b /\ orig' = Fresh
  /\ UNCHANGED <<a, b, ptr, ref>>

\* RuntimeBitset a(size)
ConstructSize ==
  \E size \in 0 .. MaxSize :
    /\ op.name = "init"
    /\ IF buildThrows(size)
         THEN res' = ErrRes("InvalidSize") /\ a' = a
         ELSE res' = NoRes /\ a' = RuntimeBitsetSize(size)
    /\ op' = [NoOp EXCEPT !.name = "ctor_size", !.k = size]
    /\ pa' = a /\ pb' = b /\ orig' = Fresh
    /\ ptr' = IF buildThrows(size) THEN ptr ELSE [ptr EXCEPT !.a = newStorage({ptr.b})]
    /\ ref' = <<>>
    /\ UNCHANGED b

\* RuntimeBitset a(size, seed)
ConstructSeed ==
  \E size \in 0 .. MaxSize : \E seed \in Words :
    \E raw \in Uninit(getNumberBlocks(size)) :
      /\ op.name = "init"
      /\ IF buildThrows(size)
           THEN res' = ErrRes("InvalidSize") /\ a' = a
           ELSE res' = NoRes /\ a' = RuntimeBitsetSeed(size, seed, raw)
      /\ op' = [NoOp EXCEPT !.name = "ctor_seed", !.k = size, !.x = seed]
      /\ pa' = a /\ pb' = b /\ orig' = Fresh
      /\ ptr' = IF buildThrows(size) THEN ptr ELSE [ptr EXCEPT !.a = newStorage({ptr.b})]
      /\ ref' = <<>>
      /\ UNCHANGED b

\* RuntimeBitset a
ConstructDefault ==
  /\ op.name = "init"
  /\ a' = RuntimeBitsetDefault
  /\ res' = NoRes
  /\ op' = [NoOp EXCEPT !.name = "ctor_default"]
  /\ pa' = a /\ pb' = b /\ orig' = Fresh
  /\ ptr' = [ptr EXCEPT !.a = newStorage({ptr.b})]
  /\ ref' = <<>>
  /\ UNCHANGED b

\* the characters of the strings explored: "x" stands for every character
\* that is neither '0' nor '1'
Chars == {"0", "1", "x"}

StringsUpTo(n) == UNION {[1 .. k -> Chars] : k \in 0 .. n}

\* RuntimeBitset a(s).  When the constructor throws there is no object: a
\* stays as it was (the arrays that build allocated are never deleted).
ConstructString ==
  \E s \in StringsUpTo(StrMaxLen) : \E raw \in Uninit(getNumberBlocks(Len(s))) :
    LET built == buildFromString(Fresh, s, raw)
    IN  /\ op.name = "init"
        /\ a' = IF built.err = "none" THEN built.obj ELSE a
        /\ res' = [NoRes EXCEPT !.err = built.err, !.str = s]
        /\ op' = [NoOp EXCEPT !.name = "ctor_string", !.k = Len(s)]
        /\ pa' = a /\ pb' = b /\ orig' = Fresh
        /\ ptr' = IF built.err = "none" THEN [ptr EXCEPT !.a = newStorage({ptr.b})] ELSE ptr
        /\ ref' = <<>>
        /\ UNCHANGED b

\* is >> a, once in a behaviour: the word s that the stream yields (empty
\* when the extraction of the word fails) is handed to a.buildFromString
ReadString ==
  \E s \in StringsUpTo(ReadMaxLen) : \E raw \in Uninit(getNumberBlocks(Len(s))) :
    LET built == buildFromString(a, s, raw)
    IN  /\ op.name = "init"
        /\ a' = built.obj
        /\ res' = [NoRes EXCEPT !.err = built.err, !.str = s]
        /\ op' = [NoOp EXCEPT !.name = "read", !.k = Len(s)]
        /\ pa' = a /\ pb' = b /\ orig' = Fresh
        /\ ptr' = [ptr EXCEPT !.a = IF built.err = "InvalidSize" THEN nullptr
                                    ELSE newStorage({ptr.b})]
        /\ ref' = <<>>
        /\ UNCHANGED b

\* RuntimeBitset b(a.to_string())
FromToString ==
  \E raw \in Uninit(a.m_blocks) :
    LET built == buildFromString(Fresh, to_string(a), raw)
    IN  /\ op.name = "init"
        /\ b' = built.obj
        /\ res' = [NoRes EXCEPT !.err = built.err, !.str = to_string(a)]
        /\ op' = [NoOp EXCEPT !.name = "from_to_string"]
        /\ pa' = a /\ pb' = b /\ orig' = Fresh
        /\ ptr' = [ptr EXCEPT !.b = IF built.err = "InvalidSize" THEN nullptr
                                        ELSE newStorage({ptr.a})]
        /\ ref' = <<>>
        /\ UNCHANGED a

\* the shifts, from every vector of up to MaxSize bits
InitShift ==
  /\ a \in AllVectors
  /\ b = clean(build(Fresh, BLOCK_SIZE, [i \in 1 .. 1 |-> 0]))
  /\ res = NoRes /\ op = NoOp
  /\ pa = a /\ pb = b /\ orig = Fresh
  /\ ptr = [a |-> "p1", b |-> "p2"] /\ ref = <<>>

NextShift == ShiftLeft \/ ShiftLeftAssign \/ ShiftRight \/ ShiftRightAssign

SpecShift == InitShift /\ [][NextShift]_vars

\* the binary operators, from every pair of vectors of up to LogicMaxSize
\* bits
InitLogic ==
  /\ a \in UNION {VectorsOfSize(n) : n \in 1 .. LogicMaxSize}
  /\ b \in UNION {VectorsOfSize(n) : n \in 1 .. LogicMaxSize}
  /\ res = NoRes /\ op = NoOp
  /\ pa = a /\ pb = b /\ orig = Fresh
  /\ ptr = [a |-> "p1", b |-> "p2"] /\ ref = <<>>

NextLogic == And \/ Or \/ Xor \/ AndAssign \/ OrAssign \/ XorAssign

SpecLogic == InitLogic /\ [][NextLogic]_vars

\* the indexed operations, from every vector of up to MaxSize bits
InitIndex == InitShift

NextIndex == Set \/ Reset \/ Flip \/ Test \/ IndexConst \/ IndexRef

SpecIndex == InitIndex /\ [][NextIndex]_vars

\* the constructors: a is the object under construction
InitBuild ==
  /\ a = Fresh /\ b = Fresh
  /\ res = NoRes /\ op = NoOp
  /\ pa = a /\ pb = b /\ orig = Fresh
  /\ ptr = [a |-> nullptr, b |-> nullptr] /\ ref = <<>>

NextBuild == ConstructSize \/ ConstructSeed \/ ConstructDefault \/ ConstructString

SpecBuild == InitBuild /\ [][NextBuild]_vars

\* the round trip through to_string, from every vector of up to MaxSize
\* bits: b is the object under construction
InitString ==
  /\ a \in AllVectors
  /\ b = Fresh
  /\ res = NoRes /\ op = NoOp
  /\ pa = a /\ pb = b /\ orig = Fresh
  /\ ptr = [a |-> "p1", b |-> nullptr] /\ ref = <<>>

NextString == FromToString

SpecString == InitString /\ [][NextString]_vars

(***************************************************************************)
(* Two runs of one program.  In the Twin actions a is the vector of one    *)
(* run and b the vector of another run of the same program, which makes    *)
(* the same call with the same arguments: the two differ only in what the  *)
(* storage held.  A native shift by BLOCK_SIZE is undefined each time it   *)
(* is evaluated, so each run has an outcome of its own (ub for a, ub2 for  *)
(* b).  No history is kept (pa, pb and orig stay Fresh), and the heap of   *)
(* neither run is followed (ptr).                                          *)
(***************************************************************************)
\* the operand of a binary operator in both runs: every block holds w
TwinOperand(t_size, w) ==
  [build(Fresh, t_size, AnyRaw(getNumberBlocks(t_size)))
     EXCEPT !.m_bits = [i \in 1 .. getNumberBlocks(t_size) |-> w]]

TwinStep(name, na, nb) ==
  /\ a' = na /\ b' = nb
  /\ res' = NoRes
  /\ op' = [NoOp EXCEPT !.name = name]
  /\ pa' = Fresh /\ pb' = Fresh /\ orig' = Fresh
  /\ UNCHANGED ptr /\ ref' = <<>>

\* v.set(pos) in both runs
TwinSet ==
  \E pos \in 0 .. MaxPos :
    IF getPositionThrows(a, pos) THEN TwinStep("twin_set", a, b)
    ELSE TwinStep("twin_set", set(a, pos), set(b, pos))

\* v.reset(pos)
TwinReset ==
  \E pos \in 0 .. MaxPos :
    IF getPositionThrows(a, pos) THEN TwinStep("twin_reset", a, b)
    ELSE TwinStep("twin_reset", reset(a, pos), reset(b, pos))

\* v.flip(pos)
TwinFlip ==
  \E pos \in 0 .. MaxPos :
    IF getPositionThrows(a, pos) THEN TwinStep("twin_flip", a, b)
    ELSE TwinStep("twin_flip", flip(a, pos), flip(b, pos))

\* v.set()
TwinSetAll == TwinStep("twin_set_all", setAll(a), setAll(b))

\* v.reset()
TwinResetAll == TwinStep("twin_reset_all", resetAll(a), resetAll(b))

\* v.flip()
TwinFlipAll == TwinStep("twin_flip_all", flipAll(a), flipAll(b))

\* ~v
TwinNot == TwinStep("twin_not", operatorNot(a), operatorNot(b))

\* v = v << k: the run goes on with the vector operator<< returned
TwinShiftLeft ==
  \E k \in 0 .. MaxShift : \E ub \in UBChoices(k), ub2 \in UBChoices(k) :
    TwinStep("twin_shl", bitwiseLeft(copy(Fresh, a), k, ub),
                         bitwiseLeft(copy(Fresh, b), k, ub2))

\* v <<= k
TwinShiftLeftAssign ==
  \E k \in 0 .. MaxShift : \E ub \in UBChoices(k), ub2 \in UBChoices(k) :
    TwinStep("twin_shl_assign", bitwiseLeft(a, k, ub), bitwiseLeft(b, k, ub2))

\* v = v >> k
TwinShiftRight ==
  \E k \in 0 .. MaxShift : \E ub \in UBChoices(k), ub2 \in UBChoices(k) :
    TwinStep("twin_shr", bitwiseRight(copy(Fresh, a), k, ub),
                         bitwiseRight(copy(Fresh, b), k, ub2))

\* v >>= k
TwinShiftRightAssign ==
  \E k \in 0 .. MaxShift : \E ub \in UBChoices(k), ub2 \in UBChoices(k) :
    TwinStep("twin_shr_assign", bitwiseRight(a, k, ub), bitwiseRight(b, k, ub2))

\* v &= c
TwinAnd ==
  \E w \in Words :
    TwinStep("twin_and",
             move(a, operatorAnd(a, TwinOperand(a.m_size, w)), AnyRaw(1)).dst,
             move(b, operatorAnd(b, TwinOperand(b.m_size, w)), AnyRaw(1)).dst)

\* v |= c
TwinOr ==
  \E w \in Words :
    TwinStep("twin_or",
             move(a, operatorOr(a, TwinOperand(a.m_size, w)), AnyRaw(1)).dst,
             move(b, operatorOr(b, TwinOperand(b.m_size, w)), AnyRaw(1)).dst)

\* v ^= c
TwinXor ==
  \E w \in Words :
    TwinStep("twin_xor",
             move(a, operatorXor(a, TwinOperand(a.m_size, w)), AnyRaw(1)).dst,
             move(b, operatorXor(b, TwinOperand(b.m_size, w)), AnyRaw(1)).dst)

\* RuntimeBitset u(v): the run goes on with the copy
TwinCopy == TwinStep("twin_copy", copy(Fresh, a), copy(Fresh, b))

\* RuntimeBitset u(std::move(v)): the run goes on with u
TwinMove ==
  TwinStep("twin_move", move(Fresh, a, AnyRaw(1)).dst, move(Fresh, b, AnyRaw(1)).dst)

\* two vectors of one length, of up to LogicMaxSize bits, that agree on
\* every bit below the length
InitTwin ==
  /\ a \in UNION {VectorsOfSize(n) : n \in 1 .. LogicMaxSize}
  /\ b \in VectorsOfSize(a.m_size)
  /\ \A j \in 0 .. (a.m_size - 1) : test(a, j) = test(b, j)
  /\ res = NoRes /\ op = NoOp
  /\ pa = Fresh /\ pb = Fresh /\ orig = Fresh
  /\ ptr = [a |-> "p1", b |-> "p1"] /\ ref = <<>>

NextTwin ==
  \/ TwinSet \/ TwinReset \/ TwinFlip
  \/ TwinSetAll \/ TwinResetAll \/ TwinFlipAll \/ TwinNot
  \/ TwinShiftLeft \/ TwinShiftLeftAssign \/ TwinShiftRight \/ TwinShiftRightAssign
  \/ TwinAnd \/ TwinOr \/ TwinXor
  \/ TwinCopy \/ TwinMove

SpecTwin == InitTwin /\ [][NextTwin]_vars

\* a read from a stream into any vector of up to MaxSize bits, and the copy
\* assignment of a vector to itself
InitRead == InitShift

NextRead == ReadString \/ CopyAssignSelf

SpecRead == InitRead /\ [][NextRead]_vars

\* the conversions to a number, of the vectors the seeded constructor
\* builds and of what set() makes of them
InitNumber == InitBuild

NextNumber == ConstructSeed \/ SetAll \/ ToUllongCall \/ ToUlongCall

SpecNumber == InitNumber /\ [][NextNumber]_vars

\* the calls on a Reference, from every vector of up to MaxSize bits
InitRef == InitShift

NextRef == IndexRef \/ RefAssign \/ RefFlip \/ RefRead \/ RefNot

SpecRef == InitRef /\ [][NextRef]_vars

\* copies and moves: the source b is any vector of up to LogicMaxSize bits,
\* the destination a any vector of one block, or the object that a copy or
\* move constructor has to build
InitCopyMove ==
  /\ a \in {Fresh} \cup UNION {VectorsOfSize(n) : n \in 1 .. BLOCK_SIZE}
  /\ b \in UNION {VectorsOfSize(n) : n \in 1 .. LogicMaxSize}
  /\ res = NoRes /\ op = NoOp
  /\ pa = a /\ pb = b /\ orig = Fresh
  /\ ptr = [a |-> IF a = Fresh THEN nullptr ELSE "p1", b |-> "p2"] /\ ref = <<>>

NextCopyMove ==
  CopyConstruct \/ CopyAssign \/ MoveConstruct \/ MoveAssign \/ CopyAssignSelf

SpecCopyMove == InitCopyMove /\ [][NextCopyMove]_vars

\* every call on one vector, from every vector of up to MaxSize bits
InitVector == InitShift

NextVector ==
  \/ SetAll \/ ResetAll \/ FlipAll \/ Not
  \/ Set \/ Reset \/ Flip
  \/ ShiftLeftAssign \/ ShiftRightAssign
  \/ CountCall \/ AllCall \/ AnyCall \/ NoneCall \/ ToStringCall
  \/ CopyAssignSelf

SpecVector == InitVector /\ [][NextVector]_vars

(***************************************************************************)
(* Reading a state: the vector a shift produced, bit by bit.               *)
(***************************************************************************)
Positions(o) == 0 .. (o.m_size - 1)

IsShiftLeft == op.name \in {"shl", "shl_assign"}

IsShiftRight == op.name \in {"shr", "shr_assign"}

IsPureShift == op.name \in {"shl", "shr"}

\* the vector the last shift produced: the returned one, or the receiver
Shifted == IF IsPureShift THEN res.vec ELSE a

AllZeroString(str) == \A i \in 1 .. Len(str) : str[i] = "0"

\* C1: after v << k or v <<= k the result has v's length, its bit j is v's
\* bit j - k for j >= k and 0 for j < k, and the pure form leaves v alone.
C1_LeftShift ==
  IsShiftLeft =>
    /\ Shifted.m_size = pa.m_size
    /\ \A j \in Positions(pa) :
         test(Shifted, j) = (j >= op.k /\ test(pa, j - op.k))
    /\ (op.name = "shl" => a = pa)

\* C2: after v >> k or v >>= k the result has v's length, its bit j is v's
\* bit j + k when j + k < length and 0 otherwise, whatever the
\* non-significant bits of the last block held, and the pure form leaves v
\* alone.
C2_RightShift ==
  IsShiftRight =>
    /\ Shifted.m_size = pa.m_size
    /\ \A j \in Positions(pa) :
         test(Shifted, j) = (j + op.k < pa.m_size /\ test(pa, j + op.k))
    /\ (op.name = "shr" => a = pa)

\* C3: a shift by 0, in any of the four forms, yields a vector of the same
\* length with the same value at every position.
C3_ShiftZeroIdentity ==
  ((IsShiftLeft \/ IsShiftRight) /\ op.k = 0) =>
    /\ Shifted.m_size = pa.m_size
    /\ \A j \in Positions(pa) : test(Shifted, j) = test(pa, j)

ShiftIsDefined(o, t_pos) == ~OverShifts(t_pos) \/ o.m_blocks = 1

C5_ShiftOutAllZero ==
  ((IsShiftLeft \/ IsShiftRight) /\ op.k >= pa.m_size) =>
    /\ Shifted.m_size = pa.m_size
    /\ none(Shifted)
    /\ count(Shifted) = 0
    /\ Len(to_string(Shifted)) = pa.m_size
    /\ AllZeroString(to_string(Shifted))

\* a multi-block vector with set bits, every one of them pushed out by a
\* left shift whose amount is a multiple of the word width
C5_Witness ==
  /\ IsShiftLeft
  /\ op.k >= pa.m_size
  /\ OverShifts(op.k)
  /\ pa.m_blocks > 1
  /\ all(pa)
  /\ none(Shifted)

(***************************************************************************)
(* Construction.                                                           *)
(***************************************************************************)
\* bit j of the number t_num
NumBit(t_num, j) == (t_num \div (2 ^ j)) % 2 = 1

\* C6: a vector constructed from v.to_string() has v's length and v's value
\* at every position: character i (from the left) of the string decides
\* bit length - 1 - i, '1' for set and '0' for clear, whatever the new
\* storage held.
C6_StringRoundTrip ==
  op.name = "from_to_string" =>
    /\ res.err = "none"
    /\ b.m_size = a.m_size
    /\ \A j \in Positions(a) : test(b, j) = test(a, j)
    /\ \A i \in 0 .. (Len(res.str) - 1) :
         test(b, (Len(res.str) - 1) - i) = (res.str[i + 1] = "1")

\* C7: RuntimeBitset(size) and RuntimeBitset() are all zero, the latter of
\* BLOCK_SIZE bits; RuntimeBitset(size, seed) has size bits, those below
\* BLOCK_SIZE equal to the bits of seed and those from BLOCK_SIZE on zero.
C7_ConstructorContents ==
  /\ (op.name = "ctor_size" /\ res.err = "none") =>
       (a.m_size = op.k /\ \A j \in Positions(a) : ~test(a, j))
  /\ op.name = "ctor_default" =>
       (a.m_size = BLOCK_SIZE /\ \A j \in Positions(a) : ~test(a, j))
  /\ (op.name = "ctor_seed" /\ res.err = "none") =>
       /\ a.m_size = op.k
       /\ \A j \in Positions(a) :
            test(a, j) = (j < BLOCK_SIZE /\ NumBit(op.x, j))

(***************************************************************************)
(* Binary logic operators.                                                 *)
(***************************************************************************)
IsPureLogic == op.name \in {"and", "or", "xor"}

IsCompoundLogic == op.name \in {"and_assign", "or_assign", "xor_assign"}

\* the vector the last binary operator produced
Combined == IF IsPureLogic THEN res.vec ELSE a

\* what the last binary operator is to make of two bits
Expected(x, y) ==
  IF op.name \in {"and", "and_assign"} THEN x /\ y
  ELSE IF op.name \in {"or", "or_assign"} THEN x \/ y
  ELSE x # y

\* C8: on operands of one length N, and/or/xor return a vector of length N
\* whose bit j is the and/or/xor of the operands' bits j and leave both
\* operands unchanged; the compound forms leave that vector in a and b
\* unchanged.
C8_BinaryLogic ==
  ((IsPureLogic \/ IsCompoundLogic) /\ pa.m_size = pb.m_size) =>
    /\ res.err = "none"
    /\ Combined.m_size = pa.m_size
    /\ \A j \in Positions(pa) :
         test(Combined, j) = Expected(test(pa, j), test(pb, j))
    /\ b = pb
    /\ (IsPureLogic => a = pa)

\* two vectors of two blocks that differ, combined by ^=
C8_Witness ==
  /\ op.name = "xor_assign"
  /\ pa.m_size = pb.m_size
  /\ pa.m_blocks = 2
  /\ all(pa)
  /\ any(pb)
  /\ ~all(pb)
  /\ count(a) = pa.m_size - count(pb)

\* C9: on operands of unequal length, and/or/xor and &=, |=, ^= fail with
\* SizeDismatch and both operands keep their length and their bits.
C9_SizeMismatch ==
  ((IsPureLogic \/ IsCompoundLogic) /\ pa.m_size # pb.m_size) =>
    /\ res.err = "SizeDismatch"
    /\ a = pa
    /\ b = pb

\* a compound form refused for operands that need the same number of
\* blocks
C9_Witness ==
  /\ op.name = "or_assign"
  /\ pa.m_size # pb.m_size
  /\ pa.m_blocks = pb.m_blocks
  /\ any(pb)
  /\ res.err = "SizeDismatch"

(***************************************************************************)
(* Indexed operations.                                                     *)
(***************************************************************************)
IsIndexed ==
  op.name \in {"set", "reset", "flip", "test", "index_const", "index_ref"}

\* C10: set, reset, flip, test and both operator[] fail with OutOfRange for
\* every pos >= length, and the vector keeps its length and its bits.
C10_OutOfRange ==
  (IsIndexed /\ op.k >= pa.m_size) =>
    /\ res.err = "OutOfRange"
    /\ a = pa

\* a set refused at a position that lies inside the last allocated block
C10_Witness ==
  /\ op.name = "set"
  /\ op.k >= pa.m_size
  /\ op.k < pa.m_blocks * BLOCK_SIZE
  /\ res.err = "OutOfRange"

(***************************************************************************)
(* C11: a constructor returns exactly when it is given a size above zero   *)
(* or a string of one or more characters that are all '0' or '1'; size     *)
(* zero and the empty string throw RuntimeBitsetInvalidSize, and a string  *)
(* of one or more characters with another character anywhere in it throws *)
(* RuntimeBitsetUnknownChar.                                               *)
(***************************************************************************)
OnlyBits(s) == \A i \in 1 .. Len(s) : s[i] \in {"0", "1"}

C11_ConstructionValidation ==
  /\ op.name \in {"ctor_size", "ctor_seed"} =>
        /\ (res.err = "none") = (op.k > 0)
        /\ (res.err = "InvalidSize") = (op.k = 0)
  /\ op.name = "ctor_string" =>
        /\ (res.err = "none") = (Len(res.str) > 0 /\ OnlyBits(res.str))
        /\ (res.err = "InvalidSize") = (Len(res.str) = 0)
        /\ (res.err = "UnknownChar") = (Len(res.str) > 0 /\ ~OnlyBits(res.str))
        /\ res.err = "none" => a.m_size = Len(res.str)

\* a string whose first character is '1' and whose last is not a bit
C11_Witness ==
  /\ op.name = "ctor_string"
  /\ Len(res.str) >= 2
  /\ res.str[1] = "1" /\ res.str[Len(res.str)] = "x"
  /\ res.err = "UnknownChar"

(***************************************************************************)
(* C12: in every state that calls on a vector reach, whole-vector set(),   *)
(* flip(), ~ and the shifts included, count() is the number of '1'         *)
(* characters of to_string().                                              *)
(***************************************************************************)
Ones(s) == Cardinality({i \in 1 .. Len(s) : s[i] = "1"})

C12_CountMatchesString ==
  /\ count(a) = Ones(to_string(a))
  /\ op.name = "count" => res.val = Ones(to_string(a))

\* the bits of a block that its mask leaves out
Garbage(o, i) == BitAnd(o.m_bits[i], BitNot(o.m_mask[i]))

\* count() was called on a vector whose last block has ones above its
\* significant bits
C12_Witness ==
  /\ op.name = "count"
  /\ a.m_blocks > 1
  /\ Garbage(a, a.m_blocks) # 0
  /\ res.val = a.m_size

(***************************************************************************)
(* C13: in every state that calls on a vector reach, all() is              *)
(* count() = length, none() is count() = 0 and any() is not none(); after  *)
(* set() all() is true and count() is the length, also when the length is  *)
(* not a multiple of the word width.                                       *)
(***************************************************************************)
C13_AllNoneAny ==
  /\ all(a) = (count(a) = a.m_size)
  /\ none(a) = (count(a) = 0)
  /\ any(a) = ~none(a)
  /\ op.name = "all" => (res.val = 1) = (count(a) = a.m_size)
  /\ op.name = "none" => (res.val = 1) = (count(a) = 0)
  /\ op.name = "any" => (res.val = 1) = ~none(a)
  /\ op.name = "set_all" => all(a) /\ count(a) = a.m_size

\* set() on a vector whose last block is partial
C13_Witness ==
  /\ op.name = "set_all"
  /\ a.m_size % BLOCK_SIZE # 0
  /\ Garbage(a, a.m_blocks) # 0
  /\ all(a)

(***************************************************************************)
(* C14: flip() twice, or flip(pos) twice with pos below the length, leaves *)
(* every bit of the vector as it was before the two calls.                 *)
(***************************************************************************)
C14_FlipInvolution ==
  (op.name \in {"flip_all", "flip"} /\ orig # Fresh) =>
    /\ a.m_size = orig.m_size
    /\ \A j \in Positions(orig) : test(a, j) = test(orig, j)

\* flip(pos) twice on a bit of the second block that was 0
C14_Witness ==
  /\ op.name = "flip"
  /\ orig # Fresh
  /\ op.k >= BLOCK_SIZE
  /\ ~test(orig, op.k)
  /\ any(orig)

(***************************************************************************)
(* C15: ~v changes v as flip() does: every bit below the length is the     *)
(* negation of what it was, and the vector returned has the length and the *)
(* bits of the changed v.  (v has one bit or more, as every constructed    *)
(* vector has.)                                                            *)
(***************************************************************************)
C15_NotMutatesReceiver ==
  (op.name = "not" /\ pa.m_size > 0) =>
    /\ res.err = "none"
    /\ a.m_size = pa.m_size
    /\ \A j \in Positions(pa) : test(a, j) = ~test(pa, j)
    /\ \A j \in Positions(pa) : test(a, j) = test(flipAll(pa), j)
    /\ res.vec.m_size = a.m_size
    /\ \A j \in Positions(a) : test(res.vec, j) = test(a, j)

\* ~v on a vector of two or more blocks with ones and zeros
C15_Witness ==
  /\ op.name = "not"
  /\ pa.m_blocks > 1
  /\ any(pa) /\ ~all(pa)
  /\ test(a, pa.m_size - 1) /\ ~test(pa, pa.m_size - 1)

(***************************************************************************)
(* C20: to_string() returns as many characters as the vector has bits,     *)
(* each '0' or '1', and the character at index i is '1' exactly when bit   *)
(* length-1-i is set, whatever the last block holds above its significant  *)
(* bits.                                                                   *)
(***************************************************************************)
C20_ToString ==
  op.name = "to_string" =>
    /\ Len(res.str) = a.m_size
    /\ \A i \in 0 .. Len(res.str) - 1 :
         /\ res.str[i + 1] \in {"0", "1"}
         /\ (res.str[i + 1] = "1") = test(a, (a.m_size - 1) - i)

\* to_string() of a vector that ends above a word boundary, with ones above
\* its significant bits, a zero as its highest bit and a one as its lowest
C20_Witness ==
  /\ op.name = "to_string"
  /\ a.m_size > BLOCK_SIZE /\ a.m_size % BLOCK_SIZE # 0
  /\ Garbage(a, a.m_blocks) # 0
  /\ res.str[1] = "0" /\ res.str[Len(res.str)] = "1"

(***************************************************************************)
(* C16: a move constructor or a move assignment a = std::move(b) gives a   *)
(* the length and the bits b had, and leaves b a vector of one bit in one  *)
(* block, with data and mask arrays of its own that are not those of a.    *)
(***************************************************************************)
C16_Move ==
  op.name \in {"move_ctor", "move_assign"} =>
    /\ a.m_size = pb.m_size
    /\ \A j \in Positions(pb) : test(a, j) = test(pb, j)
    /\ b.m_size = 1 /\ b.m_blocks = 1
    /\ Len(b.m_bits) = b.m_blocks /\ Len(b.m_mask) = b.m_blocks
    /\ b.m_mask[b.m_blocks] = getLastMask(b.m_size)
    /\ ptr.b # nullptr /\ ptr.a # nullptr
    /\ ptr.b # ptr.a

\* a vector of two blocks was moved into a vector that had arrays
C16_Witness ==
  /\ op.name = "move_assign"
  /\ pa.m_blocks > 0
  /\ pb.m_blocks > 1 /\ any(pb)
  /\ a.m_bits = pb.m_bits

(***************************************************************************)
(* C17: after a copy constructor or a copy assignment a = b, a has the     *)
(* length and the bits of b, b is as it was, and the arrays of a are not   *)
(* those of b; a vector copy assigned to itself keeps its length and its   *)
(* bits.                                                                   *)
(***************************************************************************)
C17_Copy ==
  /\ op.name \in {"copy_ctor", "copy_assign"} =>
        /\ a.m_size = pb.m_size
        /\ \A j \in Positions(pb) : test(a, j) = test(pb, j)
        /\ b = pb
        /\ ptr.a # nullptr /\ ptr.b # nullptr
        /\ ptr.a # ptr.b
  /\ op.name = "copy_assign_self" =>
        /\ res.err = "none"
        /\ a.m_size = pa.m_size
        /\ \A j \in Positions(pa) : test(a, j) = test(pa, j)

(***************************************************************************)
(* C18: for pos below the length, set(pos) leaves bit pos 1, reset(pos)    *)
(* leaves it 0 and flip(pos) leaves it negated; the length, every other    *)
(* bit of the same block and every other block are as they were.           *)
(***************************************************************************)
IsSingleBit == op.name \in {"set", "reset", "flip"}

C18_SingleBitMutators ==
  (IsSingleBit /\ op.k < pa.m_size) =>
    /\ res.err = "none"
    /\ a.m_size = pa.m_size /\ a.m_blocks = pa.m_blocks /\ a.m_mask = pa.m_mask
    /\ op.name = "set" => test(a, op.k)
    /\ op.name = "reset" => ~test(a, op.k)
    /\ op.name = "flip" => test(a, op.k) = ~test(pa, op.k)
    /\ \A j \in Positions(pa) \ {op.k} : test(a, j) = test(pa, j)
    /\ \A i \in 1 .. pa.m_blocks :
         i # (op.k \div BLOCK_SIZE) + 1 => a.m_bits[i] = pa.m_bits[i]

\* reset(pos) of a set bit of the second block, next to another set bit
C18_Witness ==
  /\ op.name = "reset"
  /\ op.k >= BLOCK_SIZE /\ op.k < pa.m_size
  /\ test(pa, op.k) /\ ~test(a, op.k)
  /\ \E j \in Positions(pa) \ {op.k} :
       j \div BLOCK_SIZE = op.k \div BLOCK_SIZE /\ test(pa, j)

(***************************************************************************)
(* C19: through the Reference v[pos], pos below the length: an assignment  *)
(* of a bool makes bit pos that bool and changes no other bit; flip()      *)
(* negates bit pos and no other; the read as bool gives the bit as it is   *)
(* now, so after a flip through the Reference the negation of what it was; *)
(* and ~ gives the negation of the bit and leaves v as it was.             *)
(***************************************************************************)
IsRefCall == op.name \in {"ref_assign", "ref_flip", "ref_read", "ref_not"}

C19_Reference ==
  (IsRefCall /\ op.k < pa.m_size) =>
    /\ res.err = "none"
    /\ a.m_size = pa.m_size
    /\ \A j \in Positions(pa) \ {op.k} : test(a, j) = test(pa, j)
    /\ op.name = "ref_assign" => test(a, op.k) = (op.x = 1)
    /\ op.name = "ref_flip" => test(a, op.k) = ~test(pa, op.k)
    /\ op.name = "ref_read" =>
          /\ a = pa
          /\ (res.val = 1) = test(a, op.k)
          /\ orig # Fresh => (res.val = 1) = ~test(orig, op.k)
    /\ op.name = "ref_not" =>
          /\ a = pa
          /\ (res.val = 1) = ~test(pa, op.k)

\* a bit of the second block that was 0 is read as 1 after a flip through
\* the Reference
C19_Witness ==
  /\ op.name = "ref_read"
  /\ orig # Fresh
  /\ op.k >= BLOCK_SIZE
  /\ ~test(orig, op.k)
  /\ res.val = 1

(***************************************************************************)
(* C21: to_ulong() and to_ullong() return the number that the lowest       *)
(* min(length, BLOCK_SIZE) bits of the vector spell, bit j counting 2^j;   *)
(* RuntimeBitset(size, seed).to_ullong() is seed modulo                    *)
(* 2^min(size, BLOCK_SIZE), and after set() a vector of n < BLOCK_SIZE     *)
(* bits gives 2^n - 1.                                                     *)
(***************************************************************************)
Min(x, y) == IF x < y THEN x ELSE y

\* the number the n lowest bits of o spell
RECURSIVE LowValue(_, _)
LowValue(o, n) ==
  IF n = 0 THEN 0
  ELSE (IF test(o, n - 1) THEN 2 ^ (n - 1) ELSE 0) + LowValue(o, n - 1)

IsNumberCall == op.name \in {"to_ullong", "to_ulong"}

C21_SeedAndSet ==
  /\ (op.name = "ctor_seed" /\ res.err = "none") =>
        \A w \in UnsignedLongLongWidths :
          to_ullong(a, w) = op.x % (2 ^ Min(op.k, BLOCK_SIZE))
  /\ (op.name = "set_all" /\ a.m_size > 0 /\ a.m_size < BLOCK_SIZE) =>
        \A w \in UnsignedLongLongWidths :
          to_ullong(a, w) = (2 ^ a.m_size) - 1

C21_ToNumber ==
  /\ (IsNumberCall /\ pa.m_size > 0) =>
        res.val = LowValue(pa, Min(pa.m_size, BLOCK_SIZE))
  /\ C21_SeedAndSet

\* the same, with to_ulong() limited to the bits unsigned long has
C21_ToNumberOfTargetWidth ==
  /\ (op.name = "to_ullong" /\ pa.m_size > 0) =>
        res.val = LowValue(pa, Min(pa.m_size, BLOCK_SIZE))
  /\ (op.name = "to_ulong" /\ pa.m_size > 0) =>
        res.val = LowValue(pa, Min(Min(pa.m_size, BLOCK_SIZE), op.x))
  /\ C21_SeedAndSet

\* to_ullong() of a vector of two blocks with ones in both, and ones above
\* the significant bits of its last block
C21_Witness ==
  /\ op.name = "to_ullong"
  /\ pa.m_blocks > 1
  /\ Garbage(pa, pa.m_blocks) # 0
  /\ res.val > 0 /\ res.val < ALL_BITS_ONE
  /\ test(pa, BLOCK_SIZE)

(***************************************************************************)
(* C22: whatever calls were made on a vector, those that ended in an       *)
(* exception included, its length is 1 or more, its number of blocks is    *)
(* the length divided by BLOCK_SIZE, rounded up, and so 1 or more, and its *)
(* data and mask arrays are allocated with that many words.                *)
(***************************************************************************)
CeilDiv(x, y) == (x + (y - 1)) \div y

C22_Structure ==
  /\ a.m_size >= 1
  /\ a.m_blocks = CeilDiv(a.m_size, BLOCK_SIZE) /\ a.m_blocks >= 1
  /\ Len(a.m_bits) = a.m_blocks /\ Len(a.m_mask) = a.m_blocks
  /\ ptr.a # nullptr

(***************************************************************************)
(* C24: when the read of a string into a vector throws                     *)
(* RuntimeBitsetInvalidSize or RuntimeBitsetUnknownChar, the vector has    *)
(* the length and the bits it had before the call.                         *)
(***************************************************************************)
C24_FailedReadKeepsVector ==
  (op.name = "read" /\ res.err # "none") =>
    /\ a.m_size = pa.m_size
    /\ \A j \in Positions(pa) : test(a, j) = test(pa, j)

(***************************************************************************)
(* C23: no call of <<, >>, <<= or >>=, whatever the amount and the vector, *)
(* evaluates a native shift of a word by BLOCK_SIZE or more: when the      *)
(* amount leaves no remainder modulo BLOCK_SIZE the pass inside the blocks *)
(* is skipped.                                                             *)
(***************************************************************************)
\* the amount of the native shift that computes remain in the pass inside
\* the blocks of a shift by t_pos
RemainShift(t_pos) == BLOCK_SIZE - splitShift(t_pos, 0)[2]

C23_NoNativeOverShift ==
  ((IsShiftLeft \/ IsShiftRight) /\ pa.m_blocks > 0) =>
    /\ RemainShift(op.k) < BLOCK_SIZE
    /\ op.ub = "none"

(***************************************************************************)
(* C25: two vectors of one length that agree on every bit below the length *)
(* and differ in what the last block holds above it give, after the same   *)
(* calls (set, reset, flip, ~, and, or, xor, shifts by any amount, copy,   *)
(* move), the same to_string(), count(), all(), any(), none(), test(pos)   *)
(* and to_ulong()/to_ullong().                                             *)
(***************************************************************************)
Observations(o) ==
  [str    |-> to_string(o),
   count  |-> count(o),
   all    |-> all(o),
   any    |-> any(o),
   none   |-> none(o),
   test   |-> [j \in Positions(o) |-> test(o, j)],
   ullong |-> [w \in UnsignedLongLongWidths |-> to_ullong(o, w)],
   ulong  |-> [w \in UnsignedLongWidths |-> to_ulong(o, w)]]

====
